---- MODULE Spec2Model ----
(***************************************************************************)
(* Model of src/app.py: the Adhaan prayer-time application.                *)
(*                                                                         *)
(* Two threads share the AdhaanApp object: the Tk UI thread, which runs    *)
(* the event handlers (toggle_adhaan, on_method_change, Fetch Now,         *)
(* schedule_refresh, select_voice_file), and the daemon thread running     *)
(* prayer_monitor.  A "HH:MM" string is modelled as the pair <<HH, MM>>;   *)
(* a Python dict as the sequence of its <<key, value>> items in insertion  *)
(* order.                                                                  *)
(***************************************************************************)
EXTENDS Integers, Sequences, FiniteSets, TLC

VARIABLES
    clock,              \* datetime.now(): [day |-> d, hm |-> <<HH, MM>>, sec |-> SS]
    calc_method,        \* self.calc_method
    pray_times,         \* the dict self.pray_times refers to
    adhaan_enabled,     \* self.adhaan_enabled
    voice_database,     \* self.voice_database
    voice_menu,         \* self.voice_menu
    manual_voice_file,  \* self.manual_voice_file ("unset": no such attribute)
    ui_pc,              \* position of the UI thread inside update_prayer_times
    mon_pc,             \* position of the monitor thread
    now_dt,             \* prayer_monitor's local now_dt
    current_times,      \* the dict prayer_monitor's local current_times refers to
    aliased,            \* current_times is the very object self.pray_times refers to
    it_pos,             \* items the dict iterator of line 90 has yielded
    it_used,            \* dict size the iterator recorded when it was created
    triggered,          \* prayer_monitor's local triggered
    trig_stale,         \* history: triggered[p] was recorded in an earlier minute than now_dt's
    plays_in_minute,    \* history: play_adhaan calls for p in the minute of now_dt (up to 2)
    plays_in_day,       \* history: play_adhaan calls for p on the day of now_dt (up to 2)
    skipped,            \* history: prayers recorded in the minute of now_dt without a call
    suppressed,         \* history: prayers whose entry matched the minute of now_dt and was
                        \* passed over because triggered already held that minute
    calc_in,            \* history: the getTimes outcomes of the last update_prayer_times
    db_file,            \* the file adhan_votes.json
    db_first,           \* history: what adhan_votes.json was before the first load
    loads               \* history: number of load_voice_database calls made

histVars == <<trig_stale, plays_in_minute, plays_in_day, skipped, suppressed>>

vars == <<clock, calc_method, pray_times, adhaan_enabled, voice_database, voice_menu,
          manual_voice_file, ui_pc, mon_pc, now_dt, current_times, aliased, it_pos,
          it_used, triggered, histVars, calc_in, db_file,
          db_first, loads>>

appVars == <<calc_method, pray_times, adhaan_enabled, voice_database, voice_menu,
             manual_voice_file, ui_pc, calc_in>>
monVars == <<mon_pc, now_dt, current_times, aliased, it_pos, it_used, triggered,
             histVars>>
dbVars == <<db_file, db_first, loads>>

----------------------------------------------------------------------------
(* Bounds of the model *)

MaxDay == 1             \* the clock runs over days 0 .. MaxDay
MaxLoads == 2           \* load_voice_database is called at most this many times
MaxVoices == 3          \* longest "voices" list found in a pre-existing file

----------------------------------------------------------------------------
(* Strings and dicts *)

None == <<>>
Sentinel == <<99, 99>>          \* the string "--:--"
Dashes == <<98, 98>>            \* "-----": what the library prints for a time it cannot compute
Midnight00 == <<0, 0>>          \* the default "00:00" of lines 427 and 429

Prayers == {"fajr", "dhuhr", "asr", "maghrib", "isha"}

DictHas(d, k) == \E i \in 1..Len(d) : d[i][1] = k

DictGet(d, k, default) ==
    IF DictHas(d, k) THEN d[CHOOSE i \in 1..Len(d) : d[i][1] = k][2] ELSE default

DictSet(d, k, v) ==
    IF DictHas(d, k)
    THEN [i \in 1..Len(d) |-> IF d[i][1] = k THEN <<k, v>> ELSE d[i]]
    ELSE Append(d, <<k, v>>)

Lower(label) ==
    CASE label = "Fajr" -> "fajr"
      [] label = "Dhuhr" -> "dhuhr"
      [] label = "Asr" -> "asr"
      [] label = "Maghrib" -> "maghrib"
      [] label = "Isha" -> "isha"
      [] OTHER -> label

----------------------------------------------------------------------------
(* datetime arithmetic of lines 422-432 *)

CanParse(s) == Len(s) = 2 /\ s[1] \in 0..23 /\ s[2] \in 0..59

\* datetime.strptime(s, "%H:%M").time(), as seconds since midnight
Strptime(s) == (s[1] * 60 + s[2]) * 60

\* dt.strftime("%H:%M") of an instant given in seconds since today's midnight
Strftime(sec) == <<(sec \div 3600) % 24, (sec \div 60) % 60>>

\* timedelta(days=1), in seconds
OneDay == 24 * 3600

SunsetDt(times) == Strptime(DictGet(times, "sunset", Midnight00))

TomorrowFajrDt(tomorrow_times) ==
    OneDay + Strptime(DictGet(tomorrow_times, "fajr", Midnight00))

NightDuration(times, tomorrow_times) == TomorrowFajrDt(tomorrow_times) - SunsetDt(times)

\* (2 / 3) * night_duration, rounded by timedelta to a whole microsecond: the
\* duration is a whole number of minutes, so two thirds of it is a whole
\* number of seconds
TwoThirdsWrong(night_duration) == night_duration \div 3

TwoThirds(night_duration) == (2 * night_duration) \div 3

LastThirdDt(times, tomorrow_times) ==
    SunsetDt(times) + TwoThirds(NightDuration(times, tomorrow_times))

----------------------------------------------------------------------------
(* The external library: PrayTimes(method).getTimes(date, coords, offset) *)

Methods == {"ISNA", "MWL"}

\* what getTimes returns for the configured location under each method
MethodTimes(method) ==
    IF method = "ISNA"
    THEN << <<"imsak", <<5, 10>> >>, <<"fajr", <<5, 20>> >>, <<"sunrise", <<6, 45>> >>,
            <<"dhuhr", <<12, 30>> >>, <<"asr", <<15, 45>> >>, <<"sunset", <<18, 15>> >>,
            <<"maghrib", <<18, 15>> >>, <<"isha", <<19, 30>> >>, <<"midnight", <<0, 30>> >> >>
    ELSE << <<"imsak", <<5, 0>> >>, <<"fajr", <<5, 10>> >>, <<"sunrise", <<6, 45>> >>,
            <<"dhuhr", <<12, 30>> >>, <<"asr", <<15, 45>> >>, <<"sunset", <<18, 15>> >>,
            <<"maghrib", <<18, 15>> >>, <<"isha", <<19, 40>> >>, <<"midnight", <<0, 30>> >> >>

Raised == [ok |-> FALSE, times |-> <<>>]

Returned(times) == [ok |-> TRUE, times |-> times]

\* outcomes of one getTimes call while the application runs: the method's table
GetTimes(method) == {Returned(MethodTimes(method))}

----------------------------------------------------------------------------
(* update_prayer_times, lines 408-438 *)

\* lines 414-419: self.pray_times after the first try block
TodayTimesKept(old, today_res) == IF today_res.ok THEN today_res.times ELSE old

TodayTimes(old, today_res) == IF today_res.ok THEN today_res.times ELSE <<>>

\* the second try block raises: getTimes for tomorrow, or strptime
LastThirdRaises(times, tomorrow_res) ==
    \/ ~tomorrow_res.ok
    \/ ~CanParse(DictGet(times, "sunset", Midnight00))
    \/ ~CanParse(DictGet(tomorrow_res.times, "fajr", Midnight00))

\* lines 421-436: the value stored under "lastthird"
LastThirdValue(times, tomorrow_res) ==
    IF LastThirdRaises(times, tomorrow_res)
    THEN Sentinel
    ELSE Strftime(LastThirdDt(times, tomorrow_res.times))

\* line 432 / 436: the item assignment on the dict self.pray_times refers to
WithLastThird(times, tomorrow_res) ==
    DictSet(times, "lastthird", LastThirdValue(times, tomorrow_res))

\* lines 410-419.  getTimes builds a new dict (or {} is one), so a reference the
\* monitor took earlier no longer refers to self.pray_times.
UpdateToday(today_res) ==
    /\ ui_pc = "idle"
    /\ pray_times' = TodayTimes(pray_times, today_res)
    /\ aliased' = FALSE
    /\ calc_in' = [today |-> today_res, tomorrow |-> Raised, done |-> FALSE]
    /\ ui_pc' = "lastthird"

\* lines 421-438.  The item assignment changes the dict in place: a monitor that
\* holds a reference to it sees the new item.
UpdateLastThird(tomorrow_res) ==
    /\ ui_pc = "lastthird"
    /\ pray_times' = WithLastThird(pray_times, tomorrow_res)
    /\ current_times' = IF aliased THEN pray_times' ELSE current_times
    /\ calc_in' = [calc_in EXCEPT !.tomorrow = tomorrow_res, !.done = TRUE]
    /\ ui_pc' = "idle"
    /\ UNCHANGED <<clock, calc_method, adhaan_enabled, voice_database, voice_menu,
                   manual_voice_file, mon_pc, now_dt, aliased, it_pos, it_used,
                   triggered, histVars, dbVars>>

\* the "Fetch Now" button, line 313
FetchNow ==
    /\ \E r \in GetTimes(calc_method) : UpdateToday(r)
    /\ UNCHANGED <<clock, calc_method, adhaan_enabled, voice_database, voice_menu,
                   manual_voice_file, mon_pc, now_dt, current_times, it_pos, it_used,
                   triggered, histVars, dbVars>>

\* schedule_refresh, lines 454-457: the timer of root.after is always armed
schedule_refresh ==
    /\ \E r \in GetTimes(calc_method) : UpdateToday(r)
    /\ UNCHANGED <<clock, calc_method, adhaan_enabled, voice_database, voice_menu,
                   manual_voice_file, mon_pc, now_dt, current_times, it_pos, it_used,
                   triggered, histVars, dbVars>>

\* on_method_change, lines 344-346: the OptionMenu has set calc_method
on_method_change ==
    /\ \E m \in Methods :
          /\ calc_method' = m
          /\ \E r \in GetTimes(m) : UpdateToday(r)
    /\ UNCHANGED <<clock, adhaan_enabled, voice_database, voice_menu,
                   manual_voice_file, mon_pc, now_dt, current_times, it_pos, it_used,
                   triggered, histVars, dbVars>>

\* the rest of update_prayer_times, whichever handler called it
FinishUpdate == \E r \in GetTimes(calc_method) : UpdateLastThird(r)

----------------------------------------------------------------------------
(* Other UI handlers *)

BellLabels == {"Fajr", "Dhuhr"}

\* line 400-402, the new dict contents
Toggled(enabled, key) ==
    [p \in DOMAIN enabled \cup {key} |->
        IF p = key THEN ~(IF key \in DOMAIN enabled THEN enabled[key] ELSE TRUE)
        ELSE enabled[p]]

\* toggle_adhaan, lines 398-406
toggle_adhaan(prayer) ==
    /\ ui_pc = "idle"
    /\ adhaan_enabled' = Toggled(adhaan_enabled, Lower(prayer))
    /\ UNCHANGED <<clock, calc_method, pray_times, voice_database, voice_menu,
                   manual_voice_file, ui_pc, calc_in, monVars, dbVars>>

\* the menu entry of a database voice, line 273: f"{name} ({votes} votes)"
VoiceOption(v) == [label |-> v.name, votes |-> v.votes]

CustomOption == [label |-> "Custom:", votes |-> 0]

NoneOption == [label |-> "None", votes |-> 0]

CustomFile == "custom.mp3"

\* select_voice_file, lines 356-367: a file is chosen, or the dialog is cancelled
select_voice_file ==
    /\ ui_pc = "idle"
    /\ \E chosen \in BOOLEAN :
          IF chosen
          THEN voice_menu' = CustomOption /\ manual_voice_file' = CustomFile
          ELSE voice_menu' = voice_menu /\ manual_voice_file' = ""
    /\ UNCHANGED <<clock, calc_method, pray_times, adhaan_enabled, voice_database,
                   ui_pc, calc_in, monVars, dbVars>>

\* get_audio_file, lines 369-382; "" stands for None
get_audio_file ==
    IF manual_voice_file \notin {"unset", ""}
    THEN manual_voice_file
    ELSE IF voice_menu.label = "Custom:"
    THEN ""
    ELSE IF \E i \in 1..Len(voice_database) : voice_database[i].name = voice_menu.label
    THEN voice_database[CHOOSE i \in 1..Len(voice_database) :
                           /\ voice_database[i].name = voice_menu.label
                           /\ \A j \in 1..(i-1) : voice_database[j].name # voice_menu.label].file
    ELSE ""

----------------------------------------------------------------------------
(* load_voice_database, lines 54-79 *)

SampleVoices ==
    << [name |-> "Mishary Rashid Alafasy", votes |-> 250, file |-> "adhan_alafasy.mp3"],
       [name |-> "Abdul Basit", votes |-> 300, file |-> "adhan_basit.mp3"],
       [name |-> "Saad Al-Ghamdi", votes |-> 200, file |-> "adhan_ghamdi.mp3"] >>

\* adhan_votes.json: missing, present but not parseable as a JSON object, or a
\* JSON object (a dict, as data)
MissingFile == [kind |-> "missing", data |-> <<>>]

CorruptFile == [kind |-> "corrupt", data |-> <<>>]

JsonFile(data) == [kind |-> "json", data |-> data]

SampleFile == JsonFile(<< <<"voices", SampleVoices>> >>)

\* what the call returns, lines 55-65 and 79
LoadResultEmpty(file) ==
    IF file.kind = "json" THEN DictGet(file.data, "voices", <<>>) ELSE <<>>

LoadResult(file) ==
    IF file.kind = "missing" THEN SampleVoices
    ELSE IF file.kind = "json" THEN DictGet(file.data, "voices", <<>>)
    ELSE <<>>

\* the file after the call, lines 73-78: only a missing file is written, and
\* the write may fail before the file is created or after it was truncated
WriteOutcomes == {"written", "open_failed", "dump_failed"}

FileAfterLoad(file, outcome) ==
    IF file.kind # "missing" THEN file
    ELSE IF outcome = "written" THEN SampleFile
    ELSE IF outcome = "open_failed" THEN MissingFile
    ELSE CorruptFile

load_voice_database ==
    /\ loads < MaxLoads
    /\ \E outcome \in WriteOutcomes :
          /\ voice_database' = LoadResult(db_file)
          /\ db_file' = FileAfterLoad(db_file, outcome)
    /\ loads' = loads + 1
    /\ UNCHANGED <<clock, calc_method, pray_times, adhaan_enabled, voice_menu,
                   manual_voice_file, ui_pc, calc_in, monVars, db_first>>

----------------------------------------------------------------------------
(* prayer_monitor, lines 82-102 *)

\* the minutes of the day at which the model looks at the clock
ClockMinutes == {<<5, 10>>, <<5, 20>>}

MinuteOfDay(hm) == hm[1] * 60 + hm[2]

\* line 87
now_str == now_dt.hm

\* the lambda of line 167
get_adhaan_enabled_always(prayer) == TRUE

get_adhaan_enabled(prayer) ==
    IF prayer \in DOMAIN adhaan_enabled THEN adhaan_enabled[prayer] ELSE FALSE

\* lines 92-94: the entry is one of the five prayers and its time is the
\* current minute
Matches(prayer, time_str) ==
    /\ prayer \in Prayers
    /\ now_str = time_str

\* the whole condition of line 94: triggered does not hold that minute for it
IsDue(prayer, time_str) ==
    /\ prayer \in Prayers
    /\ now_str = time_str
    /\ triggered[prayer] # now_str

\* lines 95-97: play_adhaan is called
CallsPlay(prayer) == get_adhaan_enabled(prayer) /\ get_audio_file # ""

\* line 101 is reached for this entry
Records(prayer, time_str) == IsDue(prayer, time_str)

UpTo2(n) == IF n > 2 THEN 2 ELSE n

\* two readings of datetime.now() that strftime("%H:%M") of the same day prints alike
SameMinute(a, b) == a.day = b.day /\ a.hm = b.hm

\* lines 86-90: read the clock, take the table, start iterating over its items
MonitorPoll ==
    /\ mon_pc = "sleep"
    /\ now_dt' = clock
    /\ current_times' = pray_times
    /\ aliased' = TRUE
    /\ it_pos' = 0
    /\ it_used' = Len(pray_times)
    /\ mon_pc' = "iter"
    /\ IF SameMinute(clock, now_dt)
       THEN UNCHANGED <<trig_stale, plays_in_minute, skipped, suppressed>>
       ELSE /\ suppressed' = {}
            /\ trig_stale' = [p \in Prayers |-> triggered[p] # None]
            /\ plays_in_minute' = [p \in Prayers |-> 0]
            /\ skipped' = {}
    /\ plays_in_day' = IF clock.day = now_dt.day THEN plays_in_day
                       ELSE [p \in Prayers |-> 0]
    /\ UNCHANGED <<clock, appVars, triggered, dbVars>>

\* the dict iterator finds the dict's size changed: RuntimeError, which nothing
\* in prayer_monitor catches, so the thread ends
MonitorRaise ==
    /\ mon_pc = "iter"
    /\ Len(current_times) # it_used
    /\ mon_pc' = "crashed"
    /\ UNCHANGED <<clock, appVars, now_dt, current_times, aliased, it_pos, it_used,
                   triggered, histVars, dbVars>>

\* the iterator is exhausted: line 102, and the locals of the poll are dead
MonitorSleep ==
    /\ mon_pc = "iter"
    /\ Len(current_times) = it_used
    /\ it_pos = it_used
    /\ mon_pc' = "sleep"
    /\ current_times' = <<>>
    /\ aliased' = FALSE
    /\ it_pos' = 0
    /\ it_used' = 0
    /\ UNCHANGED <<clock, appVars, now_dt, triggered, histVars, dbVars>>

\* lines 90-93: the iterator passes the items that are none of the five prayers
\* (`continue`) and stops at the next one that is, or at the end of the dict
PrayerItemsAfter(d, pos) == {i \in (pos + 1)..Len(d) : d[i][1] \in Prayers}

NextItem(d, pos) ==
    IF PrayerItemsAfter(d, pos) = {} THEN Len(d)
    ELSE CHOOSE i \in PrayerItemsAfter(d, pos) : \A j \in PrayerItemsAfter(d, pos) : i <= j

\* lines 90-101 up to and including the next item that is one of the five
\* prayers.  play_adhaan (lines 29-35) loads and plays the file; when the mixer
\* raises it logs the error and returns, so the call always comes back and
\* changes nothing the application reads
MonitorItem ==
    /\ mon_pc = "iter"
    /\ Len(current_times) = it_used
    /\ it_pos < it_used
    /\ it_pos' = NextItem(current_times, it_pos)
    /\ LET prayer == current_times[it_pos'][1]
           time_str == current_times[it_pos'][2]
       IN  /\ IF IsDue(prayer, time_str) /\ CallsPlay(prayer)
              THEN /\ plays_in_minute' =
                         [plays_in_minute EXCEPT ![prayer] = UpTo2(@ + 1)]
                   /\ plays_in_day' = [plays_in_day EXCEPT ![prayer] = UpTo2(@ + 1)]
              ELSE UNCHANGED <<plays_in_minute, plays_in_day>>
           /\ IF Records(prayer, time_str)
              THEN /\ triggered' = [triggered EXCEPT ![prayer] = now_str]
                   /\ trig_stale' = [trig_stale EXCEPT ![prayer] = FALSE]
                   /\ skipped' = IF CallsPlay(prayer) THEN skipped
                                 ELSE skipped \cup {prayer}
              ELSE UNCHANGED <<triggered, trig_stale, skipped>>
           /\ suppressed' = IF Matches(prayer, time_str) /\ triggered[prayer] = now_str
                            THEN suppressed \cup {prayer}
                            ELSE suppressed
    /\ UNCHANGED <<clock, appVars, mon_pc, now_dt, current_times, aliased, it_used,
                   dbVars>>

\* time passes: the clock is looked at again in a later minute
Tick ==
    /\ \/ \E hm \in ClockMinutes :
             /\ MinuteOfDay(hm) > MinuteOfDay(clock.hm)
             /\ clock' = [clock EXCEPT !.hm = hm]
       \/ \E hm \in ClockMinutes :
             /\ clock.day < MaxDay
             /\ clock' = [day |-> clock.day + 1, hm |-> hm, sec |-> 0]
    /\ UNCHANGED <<appVars, monVars, dbVars>>

----------------------------------------------------------------------------
(* The running application *)

\* the state __init__ (lines 119-174) leaves: the voice database loaded, the
\* first option selected, every bell on, the table computed, the monitor started
Init ==
    /\ clock = [day |-> 0, hm |-> <<5, 10>>, sec |-> 0]
    /\ calc_method = "ISNA"
    /\ \E f \in {MissingFile} :
          /\ db_first = f
          /\ db_file = FileAfterLoad(f, "written")
          /\ voice_database = LoadResult(f)
    /\ loads = 1
    /\ voice_menu = IF Len(voice_database) > 0 THEN VoiceOption(voice_database[1])
                    ELSE NoneOption
    /\ manual_voice_file = "unset"
    /\ adhaan_enabled = [p \in Prayers |-> TRUE]
    /\ \E r1 \in GetTimes("ISNA"), r2 \in GetTimes("ISNA") :
          /\ pray_times = WithLastThird(TodayTimes(<<>>, r1), r2)
          /\ calc_in = [today |-> r1, tomorrow |-> r2, done |-> TRUE]
    /\ ui_pc = "idle"
    /\ mon_pc = "sleep"
    /\ now_dt = clock
    /\ current_times = <<>>
    /\ aliased = FALSE
    /\ it_pos = 0
    /\ it_used = 0
    /\ triggered = [p \in Prayers |-> None]
    /\ trig_stale = [p \in Prayers |-> FALSE]
    /\ plays_in_minute = [p \in Prayers |-> 0]
    /\ plays_in_day = [p \in Prayers |-> 0]
    /\ skipped = {}
    /\ suppressed = {}

Next ==
    \/ Tick
    \/ FetchNow
    \/ schedule_refresh
    \/ on_method_change
    \/ FinishUpdate
    \/ \E prayer \in BellLabels : toggle_adhaan(prayer)
    \/ select_voice_file
    \/ MonitorPoll
    \/ MonitorItem
    \/ MonitorRaise
    \/ MonitorSleep

Spec == Init /\ [][Next]_vars

----------------------------------------------------------------------------
(* update_prayer_times on its own: the call of line 159, before the monitor *)
(* thread exists, over a wider range of library results                     *)

SunsetSamples == {<<18, 0>>, <<18, 15>>, <<21, 30>>, <<23, 58>>, <<23, 59>>, <<0, 10>>, Dashes}

FajrSamples == {<<5, 0>>, <<5, 20>>, <<3, 30>>, <<0, 0>>, <<0, 1>>, <<23, 59>>, Dashes}

TimesWith(sunset, fajr) ==
    << <<"imsak", <<4, 50>> >>, <<"fajr", fajr>>, <<"sunrise", <<6, 45>> >>,
       <<"dhuhr", <<12, 30>> >>, <<"asr", <<15, 45>> >>, <<"sunset", sunset>>,
       <<"maghrib", sunset>>, <<"isha", <<22, 0>> >>, <<"midnight", <<0, 30>> >> >>

CalcOutcomes ==
    {Raised} \cup {Returned(TimesWith(s, f)) : s \in SunsetSamples, f \in FajrSamples}

CalcToday ==
    /\ \E r \in CalcOutcomes : UpdateToday(r)
    /\ UNCHANGED <<clock, calc_method, adhaan_enabled, voice_database, voice_menu,
                   manual_voice_file, mon_pc, now_dt, current_times, it_pos, it_used,
                   triggered, histVars, dbVars>>

CalcLastThird == \E r \in CalcOutcomes : UpdateLastThird(r)

\* the state of __init__ at line 159
InitCalc ==
    /\ clock = [day |-> 0, hm |-> <<5, 10>>, sec |-> 0]
    /\ calc_method = "ISNA"
    /\ db_first = MissingFile
    /\ db_file = SampleFile
    /\ voice_database = SampleVoices
    /\ loads = 1
    /\ voice_menu = VoiceOption(voice_database[1])
    /\ manual_voice_file = "unset"
    /\ adhaan_enabled = [p \in Prayers |-> TRUE]
    /\ pray_times = <<>>
    /\ calc_in = [today |-> Raised, tomorrow |-> Raised, done |-> FALSE]
    /\ ui_pc = "idle"
    /\ mon_pc = "unstarted"
    /\ now_dt = clock
    /\ current_times = <<>>
    /\ aliased = FALSE
    /\ it_pos = 0
    /\ it_used = 0
    /\ triggered = [p \in Prayers |-> None]
    /\ trig_stale = [p \in Prayers |-> FALSE]
    /\ plays_in_minute = [p \in Prayers |-> 0]
    /\ plays_in_day = [p \in Prayers |-> 0]
    /\ skipped = {}
    /\ suppressed = {}

NextCalc == CalcToday \/ CalcLastThird

SpecCalc == InitCalc /\ [][NextCalc]_vars

----------------------------------------------------------------------------
(* load_voice_database on its own: one call per run of the program, over *)
(* the files a run may find                                               *)

RECURSIVE SeqsUpTo(_, _)
SeqsUpTo(S, n) ==
    IF n = 0 THEN {<<>>}
    ELSE SeqsUpTo(S, n - 1) \cup
         {Append(q, x) : q \in {r \in SeqsUpTo(S, n - 1) : Len(r) = n - 1}, x \in S}

VoicePool == {SampleVoices[i] : i \in 1..Len(SampleVoices)}

InitialFiles ==
    {MissingFile, CorruptFile, JsonFile(<<>>)} \cup
    {JsonFile(<< <<"voices", vs>> >>) : vs \in SeqsUpTo(VoicePool, MaxVoices)}

InitDB ==
    /\ clock = [day |-> 0, hm |-> <<5, 10>>, sec |-> 0]
    /\ calc_method = "ISNA"
    /\ db_file \in InitialFiles
    /\ db_first = db_file
    /\ voice_database = <<>>
    /\ loads = 0
    /\ voice_menu = NoneOption
    /\ manual_voice_file = "unset"
    /\ adhaan_enabled = [p \in Prayers |-> TRUE]
    /\ pray_times = <<>>
    /\ calc_in = [today |-> Raised, tomorrow |-> Raised, done |-> FALSE]
    /\ ui_pc = "idle"
    /\ mon_pc = "unstarted"
    /\ now_dt = clock
    /\ current_times = <<>>
    /\ aliased = FALSE
    /\ it_pos = 0
    /\ it_used = 0
    /\ triggered = [p \in Prayers |-> None]
    /\ trig_stale = [p \in Prayers |-> FALSE]
    /\ plays_in_minute = [p \in Prayers |-> 0]
    /\ plays_in_day = [p \in Prayers |-> 0]
    /\ skipped = {}
    /\ suppressed = {}

NextDB == load_voice_database

SpecDB == InitDB /\ [][NextDB]_vars

----------------------------------------------------------------------------
(* prayer_monitor against the clock: time.sleep(10) between two polls, over *)
(* consecutive minutes around fajr, with the calculation method left alone  *)

\* line 102
SleepSeconds == 10

\* the minutes the clock runs through on each day; fajr is at 05:20
FirstMinute == <<5, 19>>

LastMinute == <<5, 21>>

\* seconds since midnight of a reading of the clock
SecondOfDay(c) == MinuteOfDay(c.hm) * 60 + c.sec

\* the clock one sleep later; after LastMinute the next day's FirstMinute follows
AfterSleep(c) ==
    LET total == SecondOfDay(c) + SleepSeconds
        minute == total \div 60
    IN  IF minute <= MinuteOfDay(LastMinute)
        THEN [day |-> c.day, hm |-> <<minute \div 60, minute % 60>>, sec |-> total % 60]
        ELSE [day |-> c.day + 1, hm |-> FirstMinute, sec |-> total % 60]

\* time.sleep(10) has returned: the clock has moved since the monitor read it
SleepIsOver == now_dt # clock

\* lines 86-90 as soon as the sleep is over (or the thread has just started)
WakeAndPoll == SleepIsOver /\ MonitorPoll

\* ten seconds pass while the monitor sleeps after the poll it made at the
\* current reading of the clock, or after its thread has ended
TickSeconds ==
    /\ \/ mon_pc = "crashed"
       \/ mon_pc = "sleep" /\ now_dt = clock
    /\ AfterSleep(clock).day <= MaxDay
    /\ clock' = AfterSleep(clock)
    /\ UNCHANGED <<appVars, monVars, dbVars>>

\* the state __init__ leaves at line 171: the thread is started and has not
\* read the clock yet
InitPoll ==
    /\ clock = [day |-> 0, hm |-> FirstMinute, sec |-> 0]
    /\ calc_method = "ISNA"
    /\ db_first = MissingFile
    /\ db_file = SampleFile
    /\ voice_database = SampleVoices
    /\ loads = 1
    /\ voice_menu = VoiceOption(voice_database[1])
    /\ manual_voice_file = "unset"
    /\ adhaan_enabled = [p \in Prayers |-> TRUE]
    /\ \E r1 \in GetTimes("ISNA"), r2 \in GetTimes("ISNA") :
          /\ pray_times = WithLastThird(TodayTimes(<<>>, r1), r2)
          /\ calc_in = [today |-> r1, tomorrow |-> r2, done |-> TRUE]
    /\ ui_pc = "idle"
    /\ mon_pc = "sleep"
    /\ now_dt = [day |-> 0 - 1, hm |-> FirstMinute, sec |-> 0]
    /\ current_times = <<>>
    /\ aliased = FALSE
    /\ it_pos = 0
    /\ it_used = 0
    /\ triggered = [p \in Prayers |-> None]
    /\ trig_stale = [p \in Prayers |-> FALSE]
    /\ plays_in_minute = [p \in Prayers |-> 0]
    /\ plays_in_day = [p \in Prayers |-> 0]
    /\ skipped = {}
    /\ suppressed = {}

NextPoll ==
    \/ TickSeconds
    \/ FetchNow
    \/ schedule_refresh
    \/ FinishUpdate
    \/ \E prayer \in BellLabels : toggle_adhaan(prayer)
    \/ select_voice_file
    \/ WakeAndPoll
    \/ MonitorItem
    \/ MonitorRaise
    \/ MonitorSleep

SpecPoll == InitPoll /\ [][NextPoll]_vars

----------------------------------------------------------------------------
(* Properties of the monitor *)

\* this step is the monitor handling the table entry of prayer p (lines 94-101)
Handles(p) ==
    /\ mon_pc = "iter"
    /\ mon_pc' = "iter"
    /\ it_pos' > it_pos
    /\ current_times[it_pos'][1] = p

\* the time string of the entry this step handles
EntryTime == current_times[it_pos'][2]

\* this step calls play_adhaan for p
PlaysNow(p) == plays_in_day'[p] # plays_in_day[p] \/ plays_in_minute'[p] # plays_in_minute[p]

\* this step ends a poll: the monitor goes to sleep or its thread ends
PollEnds == mon_pc = "iter" /\ mon_pc' # "iter"

\* the table of the poll holds the minute the poll read for p, and triggered
\* does not hold that minute for p
LeftDue(p) == DictGet(current_times, p, None) = now_str /\ triggered[p] # now_str

\* C1: within one calendar day, whatever recomputations of the table and bell
\* toggles are interleaved with the polls, play_adhaan is called at most once for
\* each of the five prayers.
C1_AtMostOncePerDay == \A p \in Prayers : plays_in_day[p] <= 1

\* C2: if prayer p is enabled, an audio file is configured, p's time in the
\* table equals the minute t the poll read and triggered does not hold t for
\* p, the poll calls play_adhaan exactly once for p: the step that handles p's
\* entry makes the call, no poll ends with p's entry still unhandled, and no
\* later poll that still reads minute t calls it again for p.
C2_PlaysExactlyOnceInMinute ==
    /\ [](\A p \in Prayers : plays_in_minute[p] <= 1)
    /\ [][\A p \in Prayers :
             (/\ Handles(p)
              /\ now_str = EntryTime
              /\ triggered[p] # now_str
              /\ get_adhaan_enabled(p)
              /\ get_audio_file # "")
             => (plays_in_minute[p] = 0 /\ plays_in_minute'[p] = 1)]_vars
    /\ [][\A p \in Prayers :
             (PollEnds /\ get_adhaan_enabled(p) /\ get_audio_file # "")
             => ~LeftDue(p)]_vars

\* C3: an entry of triggered suppresses playback only within the minute in
\* which it was recorded: when the monitor reaches the entry of an enabled
\* prayer p with audio configured, the entry's time is the current minute, and
\* triggered holds nothing for p or what it holds was recorded in an earlier
\* minute (such as the same HH:MM of the day before), play_adhaan is called.
C3_StaleEntryDoesNotSuppress ==
    [][\A p \in Prayers :
          (/\ Handles(p)
           /\ now_str = EntryTime
           /\ (triggered[p] = None \/ trig_stale[p])
           /\ get_adhaan_enabled(p)
           /\ get_audio_file # "")
          => PlaysNow(p)]_vars

\* C4: no step taken while p's flag is false calls play_adhaan for p, whatever
\* the audio selection; and a step that changes adhaan_enabled flips the flag
\* of exactly one prayer and leaves the other flags and the table as they were.
C4_DisabledNeverPlays_ToggleFlipsOne ==
    [][/\ \A p \in Prayers :
             ~adhaan_enabled[p] =>
                 /\ plays_in_minute'[p] <= plays_in_minute[p]
                 /\ plays_in_day'[p] <= plays_in_day[p]
       /\ adhaan_enabled' # adhaan_enabled =>
             /\ DOMAIN adhaan_enabled' = DOMAIN adhaan_enabled
             /\ \E p \in Prayers :
                   /\ adhaan_enabled'[p] = ~adhaan_enabled[p]
                   /\ \A q \in Prayers \ {p} : adhaan_enabled'[q] = adhaan_enabled[q]
             /\ pray_times' = pray_times]_vars

\* fajr was switched off, its entry came due with the audio selection never
\* touched, and the minute was recorded without a call; the other bells are on
C4_Witness ==
    /\ ~adhaan_enabled["fajr"]
    /\ \A q \in Prayers \ {"fajr"} : adhaan_enabled[q]
    /\ manual_voice_file = "unset"
    /\ "fajr" \in skipped
    /\ plays_in_minute["fajr"] = 0
    /\ triggered["fajr"] = now_str

\* C8: whenever the table of a poll holds the minute the poll read for prayer
\* p and triggered does not hold that minute for p, the poll records the
\* minute for p whether or not play_adhaan was called: the step that handles
\* p's entry records it, and no poll ends with the minute unrecorded; so a
\* prayer recorded without a call is not played later in that minute, even
\* once it is enabled or an audio file is selected.
C8_RecordedWithoutPlayback ==
    /\ [](\A p \in skipped : plays_in_minute[p] = 0)
    /\ [][\A p \in Prayers :
             (Handles(p) /\ now_str = EntryTime /\ triggered[p] # now_str)
             => (triggered'[p] = now_str /\ ~trig_stale'[p])]_vars
    /\ [][PollEnds => \A p \in Prayers : ~LeftDue(p)]_vars

\* C9: every table the monitor iterates over is the complete result of one
\* recomputation, its lastthird entry included, and does not change while the
\* monitor iterates over it.
C9_MonitorTableCompleteAndStable ==
    mon_pc = "iter" =>
        /\ DictHas(current_times, "lastthird")
        /\ Len(current_times) = it_used

\* C10: the monitor loop has no terminal state: the thread is always either
\* sleeping between two polls or inside a poll.
C10_MonitorNeverStops == mon_pc \in {"sleep", "iter"}

----------------------------------------------------------------------------
(* Properties of update_prayer_times *)

\* what the last completed update_prayer_times was given
TodayRaised == ~calc_in.today.ok

TomorrowRaised == ~calc_in.tomorrow.ok

TodayEntries == IF calc_in.today.ok THEN calc_in.today.times ELSE <<>>

GivenSunset == DictGet(TodayEntries, "sunset", Midnight00)

GivenFajr == DictGet(calc_in.tomorrow.times, "fajr", Midnight00)

DerivationRaised ==
    ~TomorrowRaised /\ (~CanParse(GivenSunset) \/ ~CanParse(GivenFajr))

PairGiven ==
    /\ calc_in.done
    /\ ~TodayRaised
    /\ ~TomorrowRaised
    /\ CanParse(GivenSunset)
    /\ CanParse(GivenFajr)

\* minutes from today's midnight to today's sunset, to tomorrow's Fajr, and to
\* the minute of the last-third instant
SunsetMinute == MinuteOfDay(GivenSunset)

FajrMinute == 24 * 60 + MinuteOfDay(GivenFajr)

LastThirdMinute == LastThirdDt(TodayEntries, calc_in.tomorrow.times) \div 60

\* sunset + 2/3 of the interval from sunset to tomorrow's Fajr, cut to the minute
ExpectedMinute == SunsetMinute + (2 * (FajrMinute - SunsetMinute)) \div 3

HHMM(minute) == <<(minute \div 60) % 24, minute % 60>>

\* C6: for every pair (today's sunset, tomorrow's Fajr) the value of lastthird
\* is the HH:MM of sunset + 2/3 of the interval between them, and the minute
\* of that instant lies strictly after sunset and strictly before tomorrow's
\* Fajr.
C6_LastThirdStrictlyBetween ==
    PairGiven =>
        /\ DictGet(pray_times, "lastthird", None) = HHMM(ExpectedMinute)
        /\ LastThirdMinute = ExpectedMinute
        /\ SunsetMinute < LastThirdMinute
        /\ LastThirdMinute < FajrMinute

\* C6 as amended: the value of lastthird is the HH:MM of sunset + 2/3 of the
\* interval, cut to the minute; the minute of that instant is not before
\* sunset and strictly before tomorrow's Fajr, and it is strictly after sunset
\* whenever the interval is at least two minutes long.
C6_LastThirdBetween ==
    PairGiven =>
        /\ DictGet(pray_times, "lastthird", None) = HHMM(ExpectedMinute)
        /\ LastThirdMinute = ExpectedMinute
        /\ SunsetMinute <= LastThirdMinute
        /\ LastThirdMinute < FajrMinute
        /\ (FajrMinute - SunsetMinute >= 2) => SunsetMinute < LastThirdMinute

\* sunset 18:00 and tomorrow's Fajr 05:00 give 01:20
C6_Witness ==
    /\ PairGiven
    /\ GivenSunset = <<18, 0>>
    /\ GivenFajr = <<5, 0>>
    /\ DictGet(pray_times, "lastthird", None) = <<1, 20>>

----------------------------------------------------------------------------
(* Properties of load_voice_database *)

Votes(voices) == [i \in 1..Len(voices) |-> voices[i].votes]

\* C7: once load_voice_database has been called on a missing or unparseable
\* file, the file holds the three sample entries and the load, like every
\* later one, returns exactly those entries, with votes 250, 300 and 200.
C7_MissingOrUnreadableRecreated ==
    /\ (loads >= 1 /\ db_first.kind = "missing" /\ db_file.kind = "json") =>
           (db_file = SampleFile /\ Votes(voice_database) = <<250, 300, 200>>)
    /\ (loads >= 1 /\ db_first.kind = "corrupt") =>
           (db_file = SampleFile /\ Votes(voice_database) = <<250, 300, 200>>)

\* C7 as amended: a load that finds the file missing returns the three sample
\* entries; once it has written the file, the file holds them and every later
\* load returns exactly them, with votes 250, 300 and 200.  A load that finds
\* the file present but not parseable returns the empty list and leaves the
\* file as it is.
C7_MissingCreated_UnreadableKept ==
    /\ (loads = 1 /\ db_first.kind = "missing") => voice_database = SampleVoices
    /\ (loads >= 1 /\ db_first.kind = "missing" /\ db_file.kind = "json") =>
           /\ db_file = SampleFile
           /\ voice_database = SampleVoices
           /\ Votes(voice_database) = <<250, 300, 200>>
    /\ (loads >= 1 /\ db_first.kind = "corrupt") =>
           (voice_database = <<>> /\ db_file = db_first)

\* the file was missing, the first load wrote it and a second load read it back
C7_Witness ==
    /\ db_first.kind = "missing"
    /\ loads = 2
    /\ db_file = SampleFile
    /\ Votes(voice_database) = <<250, 300, 200>>

----------------------------------------------------------------------------
(* Properties of the polling against the clock *)

\* the table holds the minute of the clock for p
Scheduled(p) == DictGet(pray_times, p, None) = clock.hm

\* the monitor has read the clock in the clock's present minute
Observed == SameMinute(now_dt, clock)

\* C11: with the monitor sleeping 10 seconds between polls and the table's
\* minute for p unchanged, every minute in which p is scheduled, enabled and
\* has audio configured (p was not met disabled or without audio by a poll of
\* that minute) is read by at least one poll, play_adhaan is called for p in
\* that minute, and it is not called more than once.
C11_ScheduledMinutePlayedOnce ==
    /\ [](\A p \in Prayers : plays_in_minute[p] <= 1)
    /\ [][~SameMinute(clock', clock) =>
             \A p \in Prayers :
                (/\ Scheduled(p)
                 /\ get_adhaan_enabled(p)
                 /\ get_audio_file # ""
                 /\ ~(Observed /\ p \in skipped))
                => (Observed /\ plays_in_minute[p] = 1)]_vars

====
